---- MODULE Spec2Model ----
(***************************************************************************)
(* Model of main_bench.py: the training loop (train, train_epoch), the     *)
(* evaluator (evaluate, evaluate_basin) and the robustness analysis        *)
(* (eval_robustness, eval_with_added_noise).  One program run executes the *)
(* function named by cfg.mode (the dispatch of the last line).             *)
(*                                                                         *)
(* Units.  Learning rates are integers in units of 1e-5 (1e-3 = 100).      *)
(* Gradient norms are integers in units of 1e-6 (1.0 = 1000000), the       *)
(* resolution of the epsilon of torch.nn.utils.clip_grad_norm_.  Noise     *)
(* scales are integers in tenths (1.0 = 10); static attributes, noise and  *)
(* predictions are integers in the same tenths.  An NSE value              *)
(* 1 - num/den is kept as the pair <<num, den>>.                           *)
(*                                                                         *)
(* Line 589 of main_bench.py reads "t_backward_time_total = " with no      *)
(* right-hand side, which the interpreter rejects.  Spec is the program    *)
(* with that line completed to "= 0" like its five siblings, everything    *)
(* else as written; SpecAsWritten is the file as it stands.                *)
(***************************************************************************)
EXTENDS Integers, Sequences, FiniteSets, TLC

VARIABLES
    cfg,        \* the configuration of this program run (get_args)
    files,      \* the run directory: cfg.json and model_epoch<k>.pt
    data,       \* what the data provider holds for each basin
    pc,         \* position of the main process
    err,        \* the exception that ended the program, or "none"
    model,      \* the Model object: its cell and input sizes
    params,     \* the model parameters (state_dict)
    \* train, train_epoch
    epoch,      \* loop variable of train
    batch,      \* number of batches of this epoch handed to the trainer
    lr,         \* optimizer.param_groups[*]["lr"]
    grad,       \* the .grad of the model parameters
    stepping,   \* optimizer.step() calls begun and not yet returned
    loaded,     \* batches of this epoch the loader workers have produced
    trace,      \* phases the current batch has been through
    saves,      \* torch.save calls made so far, in order
    clock,      \* the system clock behind time.time_ns()
    timers,     \* t1, t2 and the time accumulators of train_epoch
    profile,    \* the epoch timings of train
    \* evaluate, evaluate_basin, eval_robustness
    basin,      \* index of the basin being processed
    seen,       \* batches of this basin the loop has consumed
    preds,      \* accumulated predictions (<<>> stands for None)
    obs,        \* accumulated observations (<<>> stands for None)
    results,    \* results (evaluate), overall_results (eval_robustness)
    outFile,    \* the result file written, or "none"
    \* eval_robustness
    scale,      \* index i of the noise scale 0.1 * i
    rep,        \* repetitions done at this scale
    step,       \* the progress counter
    draws,      \* noise vectors drawn from the generator so far
    basin_results, \* scale -> list of NSE values of this basin
    ret         \* observations, predictions and NSE of the last
                \* eval_with_added_noise call, with the noise it was given

timeVars == <<clock, timers, profile>>
trainVars == <<epoch, batch, lr, grad, stepping, loaded, trace, saves,
               timeVars>>
inferVars == <<basin, seen, preds, obs, results, outFile>>
robustVars == <<scale, rep, step, draws, basin_results, ret>>
vars == <<cfg, files, data, pc, err, model, params, trainVars, inferVars,
          robustVars>>

----------------------------------------------------------------------------
(* Bounds of the model *)

MaxEpochs == 22
NumBatches == 2
MaxWorkers == 2
MaxSeed == 1
\* clock behaviours 0..MaxSchedule: 0 is a clock that stands still
MaxSchedule == 2
NumBasins == 2
NumSamples == 3
\* stands for the batch_size=1024 of evaluate's DataLoader
EvalBatchSize == 2

(* Program constants *)

ClipNorm == TRUE
ClipValue == 1000000
ClipEps == 1
LrEpoch11 == 50
LrEpoch21 == 10
DefaultLearningRate == 100
PrefetchFactor == 2
NumStatAttribs == 27
NumDynAttribs == 32
NumStatAttribsPartial == 10
NumDynAttribsPartial == 15
NumForcings == 5
HiddenSize == 256
n_repetitions == 50
NumScales == 11

NoCkpt == [steps |-> -1]
NoModel == [cell |-> "none", input_size_dyn |-> 0, input_size_stat |-> 0,
            hidden_size |-> 0, concat_static |-> FALSE, no_static |-> FALSE]

----------------------------------------------------------------------------
(* Exact comparison of products, a * b <= c * d, for factors below 10^7:   *)
(* the products exceed 32 bits, so they are formed in base 1000 limbs.     *)

Limb == 1000

Prod(a, b) ==
    LET a1 == a \div Limb  a0 == a % Limb
        b1 == b \div Limb  b0 == b % Limb
        mid == a1 * b0 + a0 * b1
        low == (mid % Limb) * Limb + a0 * b0
    IN  <<a1 * b1 + (mid \div Limb) + (low \div (Limb * Limb)),
          low % (Limb * Limb)>>

ProdLeq(a, b, c, d) ==
    LET p == Prod(a, b)
        q == Prod(c, d)
    IN  p[1] < q[1] \/ (p[1] = q[1] /\ p[2] <= q[2])

RECURSIVE Sum(_)
Sum(s) == IF s = <<>> THEN 0 ELSE Head(s) + Sum(Tail(s))

----------------------------------------------------------------------------
(* Configuration *)

EpochChoices == {0, 1, MaxEpochs}
LearningRates == {DefaultLearningRate, LrEpoch11, LrEpoch21, 5}

\* The cell variants: EA-LSTM, LSTM without static features, LSTM with the
\* static features concatenated, EA-LSTM on the partial attribute set
VariantFlags ==
    {[no_static |-> FALSE, concat_static |-> FALSE, use_partial_attribs |-> FALSE],
     [no_static |-> TRUE, concat_static |-> FALSE, use_partial_attribs |-> FALSE],
     [no_static |-> FALSE, concat_static |-> TRUE, use_partial_attribs |-> FALSE],
     [no_static |-> FALSE, concat_static |-> FALSE, use_partial_attribs |-> TRUE]}

\* Global gradient norms the backward pass can produce: zero, below the
\* clipping threshold, at it, and above it.
GradNorms == <<3 * ClipValue, ClipValue, 0, ClipValue + ClipEps,
               ClipValue - ClipEps>>

Config(mode, epochs, rate, workers, flags, mse, seed) ==
    [mode |-> mode, epochs |-> epochs, learning_rate |-> rate,
     num_workers |-> workers, no_static |-> flags.no_static,
     concat_static |-> flags.concat_static,
     use_partial_attribs |-> flags.use_partial_attribs, use_mse |-> mse,
     seed |-> seed, hidden_size |-> HiddenSize]

TrainConfigs ==
    {Config("train", e, r, w, f, m, s) :
        e \in EpochChoices, r \in LearningRates, w \in {0, MaxWorkers},
        f \in VariantFlags, m \in BOOLEAN, s \in 0..MaxSeed}

\* The run directory: whether it exists, the configuration cfg.json holds
\* and how often it was written, the data files, the checkpoints by epoch
EmptyDir == [exists |-> FALSE, cfg |-> "none", dumps |-> 0,
             dataFiles |-> {},
             ckpt |-> [e \in 1..MaxEpochs |-> NoCkpt]]

----------------------------------------------------------------------------
(* The model object *)

\* Model.__init__: the standard cell when the static features are
\* concatenated or absent, the entity-aware cell otherwise
NewModel(dyn, stat, hidden, concat, nostatic) ==
    [cell |-> IF concat \/ nostatic THEN "LSTM" ELSE "EALSTM",
     input_size_dyn |-> dyn, input_size_stat |-> stat,
     hidden_size |-> hidden, concat_static |-> concat,
     no_static |-> nostatic]

\* The sizes train and evaluate derive from a configuration
InputSizeStat(c) ==
    IF c.no_static THEN 0
    ELSE IF c.use_partial_attribs THEN NumStatAttribsPartial
    ELSE NumStatAttribs

InputSizeDyn(c) ==
    IF c.no_static \/ ~c.concat_static THEN NumForcings
    ELSE IF c.use_partial_attribs THEN NumDynAttribsPartial
    ELSE NumDynAttribs

ConfiguredModel(c) ==
    NewModel(InputSizeDyn(c), InputSizeStat(c), c.hidden_size,
             c.concat_static, c.no_static)

\* The names and shapes of the tensors of the model's state_dict: the
\* static input size shapes a tensor of the entity-aware cell only.
StateShape(m) ==
    [cell |-> m.cell, dyn |-> m.input_size_dyn,
     stat |-> IF m.cell = "EALSTM" THEN m.input_size_stat ELSE 0,
     hidden |-> m.hidden_size]

----------------------------------------------------------------------------
(* Gradients and parameters *)

\* A gradient: the batches whose backward pass contributed to it, its global
\* norm, and the factor num/den it has been scaled by.
NoGrad == [src |-> <<>>, norm |-> 0, num |-> 1, den |-> 1]

\* The parameters of a freshly constructed model
InitParams(m) ==
    [steps |-> 0, lr |-> 0, epoch |-> 0, grad |-> NoGrad,
     shape |-> StateShape(m)]

\* optimizer.zero_grad()
ZeroedGradKeep(g) == g
ZeroedGrad(g) == NoGrad

\* The seeds are fixed at the start of train, so the gradient of a batch is
\* a function of the seed and of the batch's place in the run.
BatchGradNorm(seed, e, b) ==
    GradNorms[((seed + (e - 1) * NumBatches + b) % Len(GradNorms)) + 1]

\* loss.backward(): adds the batch's gradient to .grad
Backpropagated(g, e, b, n) ==
    [src |-> Append(g.src, <<e, b>>), norm |-> g.norm + n,
     num |-> g.num, den |-> g.den]

\* torch.nn.utils.clip_grad_norm_(parameters, max_norm):
\*   clip_coef = max_norm / (total_norm + 1e-6)
\*   if clip_coef < 1: every gradient is multiplied by clip_coef
ClipGradNormOff(g, maxNorm) == g
ClipGradNorm(g, maxNorm) ==
    IF maxNorm < g.norm + ClipEps
    THEN [g EXCEPT !.num = maxNorm, !.den = g.norm + ClipEps]
    ELSE g

\* optimizer.step(): the new parameters are the old ones updated with the
\* gradient at the current learning rate
OptimizerStep(p, g, rate, e) ==
    [p EXCEPT !.steps = p.steps + 1, !.lr = rate, !.epoch = e, !.grad = g]

\* learning_rates = {11: 5e-4, 21: 1e-4}
LearningRatesShifted == [e \in {10, 20} |-> IF e = 10 THEN LrEpoch11 ELSE LrEpoch21]
learning_rates == [e \in {11, 21} |-> IF e = 11 THEN LrEpoch11 ELSE LrEpoch21]

\* model_path = run_dir / f"model_epoch{epoch}.pt"
ModelPathLast(e) == cfg.epochs
ModelPath(e) == e

----------------------------------------------------------------------------
(* The clock and the timers *)

\* What the clock has advanced by between its reads n and n + 1, in
\* behaviour s: not at all (s = 0), by varying amounts, or by amounts that
\* are sometimes negative (time.time_ns() is the wall clock, which can be
\* set back).
Elapsed(s, n) == ((s * (n + 1)) % 5) - (s \div 2)

\* time.time_ns(): the clock after the read; .now is the value returned
TimeNs(c) ==
    [c EXCEPT !.reads = @ + 1, !.now = @ + Elapsed(c.schedule, c.reads)]

\* The accumulators as train_epoch initialises them
NoTimers ==
    [t1 |-> 0, t2 |-> 0, zero |-> 0, forward |-> 0, loss |-> 0,
     backward |-> 0, optimizer |-> 0, mist |-> 0]

NoProfile == [t1_epoch |-> 0, training |-> 0, data |-> 0]

\* t1 = time.time_ns(); <phase>; t2 = time.time_ns(); total += t2 - t1
Timed(t, c, phase) ==
    LET c1 == TimeNs(c)
        c2 == TimeNs(c1)
    IN  [t EXCEPT !.t1 = c1.now, !.t2 = c2.now,
                  ![phase] = @ + (c2.now - c1.now)]

\* The value train_epoch returns: the sum of its accumulators
TimersTotal(t) ==
    t.zero + t.forward + t.loss + t.backward + t.optimizer + t.mist

----------------------------------------------------------------------------
(* train *)

BatchPcs == {"next_batch", "zero_grad", "forward", "loss", "backward",
             "clip", "step", "stepping"}

\* attributes.db and train_data.h5, which _prepare_data writes
PreparedFiles == {"attributes.db", "train_data.h5"}

\* _setup_run as it would be with the dump of cfg.json ahead of the test of
\* the run directory
SetupRunDumpFirst ==
    /\ pc = "start"
    /\ cfg.mode = "train"
    /\ files' = [files EXCEPT !.exists = TRUE, !.cfg = cfg, !.dumps = @ + 1]
    /\ IF files.exists
       THEN pc' = "failed" /\ err' = "RuntimeError"
       ELSE pc' = "prepare" /\ err' = err
    /\ UNCHANGED <<cfg, data, model, params, trainVars, inferVars,
                   robustVars>>

\* _setup_run: refuses an existing run directory, else creates it and dumps
\* the configuration into cfg.json
SetupRun ==
    /\ pc = "start"
    /\ cfg.mode = "train"
    /\ IF files.exists
       THEN /\ pc' = "failed"
            /\ err' = "RuntimeError"
            /\ files' = files
       ELSE /\ files' = [files EXCEPT !.exists = TRUE, !.cfg = cfg,
                                      !.dumps = @ + 1]
            /\ pc' = "prepare"
            /\ err' = err
    /\ UNCHANGED <<cfg, data, model, params, trainVars, inferVars,
                   robustVars>>

\* train between _setup_run and the loop over the epochs: the data files
\* are written and the loader built, each between two reads of the clock,
\* and the model and the optimizer created
PrepareData ==
    /\ pc = "prepare"
    /\ files' = [files EXCEPT !.dataFiles = @ \cup PreparedFiles]
    /\ clock' = TimeNs(TimeNs(TimeNs(TimeNs(clock))))
    /\ model' = ConfiguredModel(cfg)
    /\ params' = InitParams(ConfiguredModel(cfg))
    /\ lr' = cfg.learning_rate
    /\ pc' = "epoch_head"
    /\ UNCHANGED <<cfg, data, err, epoch, batch, grad, stepping, loaded,
                   trace, saves, timers, profile, inferVars, robustVars>>

\* for epoch in range(1, cfg["epochs"] + 1), with the learning-rate update
\* that opens the loop body and the clock read before train_epoch
EpochHead ==
    /\ pc = "epoch_head"
    /\ IF epoch < cfg.epochs
       THEN /\ epoch' = epoch + 1
            /\ lr' = IF epoch + 1 \in DOMAIN learning_rates
                     THEN learning_rates[epoch + 1]
                     ELSE lr
            /\ clock' = TimeNs(clock)
            /\ profile' = [profile EXCEPT !.t1_epoch = TimeNs(clock).now]
            /\ pc' = "train_epoch"
       ELSE /\ pc' = "done"
            /\ UNCHANGED <<epoch, lr, clock, profile>>
    /\ UNCHANGED <<cfg, files, data, err, model, params, batch, grad,
                   stepping, loaded, trace, saves, timers, inferVars,
                   robustVars>>

\* train_epoch up to the loop: model.train(), the progress bar, the
\* accumulators set to 0
TrainEpochEnter ==
    /\ pc = "train_epoch"
    /\ batch' = 0
    /\ loaded' = 0
    /\ trace' = <<>>
    /\ timers' = NoTimers
    /\ pc' = "next_batch"
    /\ UNCHANGED <<cfg, files, data, err, model, params, epoch, lr, grad,
                   stepping, saves, clock, profile, inferVars, robustVars>>

\* A DataLoader worker produces the next batch of the epoch, at most
\* prefetch_factor * num_workers batches ahead of the trainer.
LoaderWorker(w) ==
    /\ pc \in BatchPcs
    /\ w <= cfg.num_workers
    /\ loaded < NumBatches
    /\ loaded < batch + PrefetchFactor * cfg.num_workers
    /\ loaded' = loaded + 1
    /\ UNCHANGED <<cfg, files, data, pc, err, model, params, epoch, batch,
                   lr, grad, stepping, trace, saves, timeVars, inferVars,
                   robustVars>>

\* for data in pbar: the next batch in order, or the end of the epoch, where
\* train_epoch returns the sum of its accumulators.  With num_workers = 0
\* the main process loads the batch itself.
NextBatch ==
    /\ pc = "next_batch"
    /\ IF batch = NumBatches
       THEN /\ pc' = "save"
            /\ profile' = [profile EXCEPT !.training = TimersTotal(timers)]
            /\ UNCHANGED <<batch, loaded, trace>>
       ELSE /\ IF cfg.num_workers = 0
               THEN loaded' = batch + 1
               ELSE loaded > batch /\ loaded' = loaded
            /\ batch' = batch + 1
            /\ trace' = <<>>
            /\ pc' = "zero_grad"
            /\ profile' = profile
    /\ UNCHANGED <<cfg, files, data, err, model, params, epoch, lr, grad,
                   stepping, saves, clock, timers, inferVars, robustVars>>

ZeroGrad ==
    /\ pc = "zero_grad"
    /\ grad' = ZeroedGrad(grad)
    /\ trace' = Append(trace, "zero_grad")
    /\ timers' = Timed(timers, clock, "zero")
    /\ clock' = TimeNs(TimeNs(clock))
    /\ pc' = "forward"
    /\ UNCHANGED <<cfg, files, data, err, model, params, epoch, batch, lr,
                   stepping, loaded, saves, profile, inferVars, robustVars>>

\* len(data) == 3: model(x); len(data) == 4: model(x_d, x_s[:, 0, :])
Forward ==
    /\ pc = "forward"
    /\ trace' = Append(trace, "forward")
    /\ timers' = Timed(timers, clock, "forward")
    /\ clock' = TimeNs(TimeNs(clock))
    /\ pc' = "loss"
    /\ UNCHANGED <<cfg, files, data, err, model, params, epoch, batch, lr,
                   grad, stepping, loaded, saves, profile, inferVars,
                   robustVars>>

\* loss_func(predictions, y) or loss_func(predictions, y, q_stds)
Loss ==
    /\ pc = "loss"
    /\ trace' = Append(trace, "loss")
    /\ timers' = Timed(timers, clock, "loss")
    /\ clock' = TimeNs(TimeNs(clock))
    /\ pc' = "backward"
    /\ UNCHANGED <<cfg, files, data, err, model, params, epoch, batch, lr,
                   grad, stepping, loaded, saves, profile, inferVars,
                   robustVars>>

Backward ==
    /\ pc = "backward"
    /\ grad' = Backpropagated(grad, epoch, batch,
                               BatchGradNorm(cfg.seed, epoch, batch))
    /\ trace' = Append(trace, "backward")
    /\ timers' = Timed(timers, clock, "backward")
    /\ clock' = TimeNs(TimeNs(clock))
    /\ pc' = "clip"
    /\ UNCHANGED <<cfg, files, data, err, model, params, epoch, batch, lr,
                   stepping, loaded, saves, profile, inferVars, robustVars>>

\* t1 = time.time_ns()
\* if cfg["clip_norm"]: clip_grad_norm_(model.parameters(), cfg["clip_value"])
Clip ==
    /\ pc = "clip"
    /\ clock' = TimeNs(clock)
    /\ timers' = [timers EXCEPT !.t1 = TimeNs(clock).now]
    /\ IF ClipNorm
       THEN /\ grad' = ClipGradNorm(grad, ClipValue)
            /\ trace' = Append(trace, "clip")
       ELSE UNCHANGED <<grad, trace>>
    /\ pc' = "step"
    /\ UNCHANGED <<cfg, files, data, err, model, params, epoch, batch, lr,
                   stepping, loaded, saves, profile, inferVars, robustVars>>

\* optimizer.step() is entered ...
StepBeginAsync ==
    /\ pc = "step"
    /\ stepping' = Append(stepping, <<epoch, batch>>)
    /\ trace' = Append(trace, "step")
    /\ pc' = "next_batch"
    /\ UNCHANGED <<cfg, files, data, err, model, params, epoch, batch, lr,
                   grad, loaded, saves, timeVars, inferVars, robustVars>>
StepBegin ==
    /\ pc = "step"
    /\ stepping' = Append(stepping, <<epoch, batch>>)
    /\ trace' = Append(trace, "step")
    /\ pc' = "stepping"
    /\ UNCHANGED <<cfg, files, data, err, model, params, epoch, batch, lr,
                   grad, loaded, saves, timeVars, inferVars, robustVars>>

\* ... and returns with the parameters updated; the loss is shown,
\* t2 = time.time_ns(), t_optimizer_time_total += t2 - t1, the loop goes on
StepEnd ==
    /\ pc = "stepping"
    /\ stepping # <<>>
    /\ params' = OptimizerStep(params, grad, lr, epoch)
    /\ stepping' = Tail(stepping)
    /\ clock' = TimeNs(clock)
    /\ timers' = [timers EXCEPT !.t2 = TimeNs(clock).now,
                                !.optimizer = @ + (TimeNs(clock).now - timers.t1)]
    /\ pc' = "next_batch"
    /\ UNCHANGED <<cfg, files, data, err, model, epoch, batch, lr, grad,
                   loaded, trace, saves, profile, inferVars, robustVars>>

\* After train_epoch: the clock is read, the data time of the epoch is
\* what elapsed less what train_epoch returned, and
\* torch.save(model.state_dict(), model_path) stores the epoch's parameters
SaveCheckpoint ==
    /\ pc = "save"
    /\ clock' = TimeNs(clock)
    /\ profile' = [profile EXCEPT
                      !.data = (TimeNs(clock).now - profile.t1_epoch)
                               - profile.training]
    /\ files' = [files EXCEPT !.ckpt[ModelPath(epoch)] = params]
    /\ saves' = Append(saves, [key |-> ModelPath(epoch), value |-> params])
    /\ pc' = "epoch_head"
    /\ UNCHANGED <<cfg, data, err, model, params, epoch, batch, lr, grad,
                   stepping, loaded, trace, timers, inferVars, robustVars>>

\* The learning rate in effect during epoch e of a run
EpochRate(initial, e) ==
    IF e >= 21 THEN learning_rates[21]
    ELSE IF e >= 11 THEN learning_rates[11]
    ELSE initial

\* The parameters a completed run with configuration c has after epoch e
TrainedParams(c, e) ==
    OptimizerStep(
        [InitParams(ConfiguredModel(c)) EXCEPT !.steps = e * NumBatches - 1],
        ClipGradNorm(Backpropagated(NoGrad, e, NumBatches,
                                    BatchGradNorm(c.seed, e, NumBatches)),
                     ClipValue),
        EpochRate(c.learning_rate, e), e)

\* The run directory a completed run with configuration c leaves behind
TrainedDir(c) ==
    [exists |-> TRUE, cfg |-> c, dumps |-> 1, dataFiles |-> PreparedFiles,
     ckpt |-> [e \in 1..MaxEpochs |->
                  IF e <= c.epochs THEN TrainedParams(c, e) ELSE NoCkpt]]

\* The run directory of a run with configuration c that stopped after the
\* checkpoint of epoch k was written and before the next one
AbortedDir(c, k) ==
    [TrainedDir(c) EXCEPT
        !.ckpt = [e \in 1..MaxEpochs |-> IF e <= k THEN @[e] ELSE NoCkpt]]

----------------------------------------------------------------------------
(* The data provider, the network and the metric *)

\* The normalised static attributes of basin b, n of them
Attributes(b, n) == [j \in 1..n |-> IF j = b THEN 10 ELSE 0]

\* The (dynamic input, observation) samples a basin can hold; a negative
\* observation is the missing-value sentinel
SampleChoices == <<[x_d |-> -20, y |-> 3], [x_d |-> 5, y |-> -999],
                   [x_d |-> -4, y |-> 0], [x_d |-> 2, y |-> 7]>>

DataOffsets == 0..(Len(SampleChoices) - 1)

Samples(b, offset) ==
    [i \in 1..NumSamples |->
        SampleChoices[((offset + b + i) % Len(SampleChoices)) + 1]]

\* The attribute database of a run holds the attribute set of its training
Dataset(offset, runCfg) ==
    [b \in 1..NumBasins |->
        [attributes |-> Attributes(b, IF runCfg.use_partial_attribs
                                       THEN NumStatAttribsPartial
                                       ELSE NumStatAttribs),
         samples |-> Samples(b, offset)]]

\* CamelsTXT.__getitem__ with attributes: (x, y) with the attributes
\* concatenated to the input, or (x_d, x_s, y)
Item(d, i, concat) ==
    IF concat
    THEN [len |-> 2, x_d |-> d.samples[i].x_d + Sum(d.attributes),
          x_s |-> <<>>, y |-> d.samples[i].y]
    ELSE [len |-> 3, x_d |-> d.samples[i].x_d, x_s |-> d.attributes,
          y |-> d.samples[i].y]

\* DataLoader(ds, batch_size=size, shuffle=False): the k-th batch
NumLoaderBatches(n, size) == (n + size - 1) \div size

LoaderBatch(d, concat, size, k) ==
    LET first == (k - 1) * size + 1
        last == IF k * size < NumSamples THEN k * size ELSE NumSamples
    IN  [i \in 1..(last - first + 1) |-> Item(d, first + i - 1, concat)]

\* The two cells with the prediction head, in inference mode: one output
\* per sequence, a function of the parameters and of that sequence alone
StandardCell(p, x) == x + (p.steps % 2)
EntityAwareCell(p, x_d, x_s) == x_d + Sum(x_s) + (p.steps % 2)

\* Model.forward
ModelForward(m, p, x_d, x_s) ==
    IF m.concat_static \/ m.no_static
    THEN StandardCell(p, x_d)
    ELSE EntityAwareCell(p, x_d, x_s)

\* rescale_features(preds, variable='output'): feature * std + mean
OutputStd == 3
OutputMean == 1
RescaleFeatures(a) == [i \in 1..Len(a) |-> a[i] * OutputStd + OutputMean]

\* calc_nse(obs, sim): NSE = 1 - sum((obs - sim)^2) / sum((obs - mean)^2),
\* returned as <<numerator, denominator>> with both scaled by len^2
CalcNse(o, s) ==
    LET n == Len(o)
        total == Sum(o)
    IN  <<n * n * Sum([i \in 1..n |-> (o[i] - s[i]) * (o[i] - s[i])]),
          Sum([i \in 1..n |-> (n * o[i] - total) * (n * o[i] - total)])>>

\* a[a < 0] = 0
ClampNegative(a) == [i \in 1..Len(a) |-> IF a[i] < 0 THEN 0 ELSE a[i]]

\* a[m >= 0]: the entries of a at the places where m is not negative
RECURSIVE MaskNonNegative(_, _)
MaskPositive(a, m) ==
    IF a = <<>> THEN <<>>
    ELSE IF Head(m) > 0 THEN <<Head(a)>> \o MaskNonNegative(Tail(a), Tail(m))
    ELSE MaskNonNegative(Tail(a), Tail(m))
MaskNonNegative(a, m) ==
    IF a = <<>> THEN <<>>
    ELSE IF Head(m) >= 0 THEN <<Head(a)>> \o MaskNonNegative(Tail(a), Tail(m))
    ELSE MaskNonNegative(Tail(a), Tail(m))

----------------------------------------------------------------------------
(* evaluate, evaluate_basin *)

\* The sizes evaluate derives from the stored configuration
EvalInputSizeStat(c) ==
    IF c.no_static THEN 0
    ELSE IF c.use_partial_attribs THEN NumStatAttribsPartial
    ELSE NumStatAttribs

EvalInputSizeDyn(c) ==
    IF c.no_static \/ ~c.concat_static THEN NumForcings
    ELSE IF c.use_partial_attribs THEN NumDynAttribsPartial
    ELSE NumDynAttribs

EvaluateModel(c) ==
    NewModel(EvalInputSizeDyn(c), EvalInputSizeStat(c), c.hidden_size,
             c.concat_static, c.no_static)

\* the checkpoint before the last one
WeightFileBeforeLast(c) == IF c.epochs > 1 THEN c.epochs - 1 ELSE c.epochs

\* weight_file = run_dir / f"model_epoch{run_cfg['epochs']}.pt"
WeightFile(c) == c.epochs

\* torch.load + load_state_dict: "ok", or the exception raised
LoadOutcome(dir, m) ==
    IF WeightFile(dir.cfg) \notin DOMAIN dir.ckpt THEN "FileNotFoundError"
    ELSE IF dir.ckpt[WeightFile(dir.cfg)] = NoCkpt THEN "FileNotFoundError"
    ELSE IF dir.ckpt[WeightFile(dir.cfg)].shape # StateShape(m)
    THEN "RuntimeError"
    ELSE "ok"

\* _store_results: the name of the result file
ResultFile(c) ==
    IF c.no_static THEN "lstm_no_static"
    ELSE IF c.concat_static THEN "lstm" ELSE "ealstm"

\* evaluate up to the loop over the basins: read cfg.json, build the model,
\* load the weights of the last epoch
EvaluateSetup ==
    /\ pc = "start"
    /\ cfg.mode = "evaluate"
    /\ IF ~files.exists
       THEN /\ pc' = "failed"
            /\ err' = "FileNotFoundError"
            /\ UNCHANGED <<model, params>>
       ELSE /\ model' = EvaluateModel(files.cfg)
            /\ IF LoadOutcome(files, EvaluateModel(files.cfg)) = "ok"
               THEN /\ params' = files.ckpt[WeightFile(files.cfg)]
                    /\ pc' = "eval_basins"
                    /\ err' = err
               ELSE /\ err' = LoadOutcome(files, EvaluateModel(files.cfg))
                    /\ pc' = "failed"
                    /\ params' = InitParams(EvaluateModel(files.cfg))
    /\ UNCHANGED <<cfg, files, data, trainVars, inferVars, robustVars>>

\* for basin in tqdm(basins): the dataset and the loader of the next basin,
\* and evaluate_basin up to its loop
EvaluateBasinEnter ==
    /\ pc = "eval_basins"
    /\ basin < NumBasins
    /\ basin' = basin + 1
    /\ seen' = 0
    /\ preds' = <<>>
    /\ obs' = <<>>
    /\ pc' = "eval_batch"
    /\ UNCHANGED <<cfg, files, data, err, model, params, trainVars, results,
                   outFile, robustVars>>

\* The outputs of the model for the items of one batch, and their targets
BatchOutputs(m, p, items) ==
    [i \in 1..Len(items) |-> ModelForward(m, p, items[i].x_d, items[i].x_s)]

BatchTargets(items) == [i \in 1..Len(items) |-> items[i].y]

\* One pass of the loop as it would be with an optimizer step in it
EvaluateBatchTraining ==
    /\ pc = "eval_batch"
    /\ seen < NumLoaderBatches(NumSamples, EvalBatchSize)
    /\ LET items == LoaderBatch(data[basin], files.cfg.concat_static,
                                EvalBatchSize, seen + 1)
       IN  /\ preds' = preds \o BatchOutputs(model, params, items)
           /\ obs' = obs \o BatchTargets(items)
    /\ seen' = seen + 1
    /\ params' = [params EXCEPT !.steps = @ + 1]
    /\ UNCHANGED <<cfg, files, data, pc, err, model, trainVars,
                   basin, results, outFile, robustVars>>

\* One pass of the loop of evaluate_basin, under torch.no_grad() and after
\* model.eval(): preds and obs grow by the batch
EvaluateBatch ==
    /\ pc = "eval_batch"
    /\ seen < NumLoaderBatches(NumSamples, EvalBatchSize)
    /\ LET items == LoaderBatch(data[basin], files.cfg.concat_static,
                                EvalBatchSize, seen + 1)
       IN  /\ preds' = preds \o BatchOutputs(model, params, items)
           /\ obs' = obs \o BatchTargets(items)
    /\ seen' = seen + 1
    /\ UNCHANGED <<cfg, files, data, pc, err, model, params, trainVars,
                   basin, results, outFile, robustVars>>

\* evaluate_basin after its loop: rescale, then set discharges < 0 to zero
FinishPredictionsClampFirst(raw) == RescaleFeatures(ClampNegative(raw))
FinishPredictions(raw) == ClampNegative(RescaleFeatures(raw))

\* evaluate_basin returns and the basin's table is stored in results
EvaluateBasinFinish ==
    /\ pc = "eval_batch"
    /\ seen = NumLoaderBatches(NumSamples, EvalBatchSize)
    /\ preds' = FinishPredictions(preds)
    /\ results' = results @@ (basin :> [qobs |-> obs,
                                         qsim |-> FinishPredictions(preds)])
    /\ pc' = "eval_basins"
    /\ UNCHANGED <<cfg, files, data, err, model, params, trainVars, basin,
                   seen, obs, outFile, robustVars>>

StoreResults ==
    /\ pc = "eval_basins"
    /\ basin = NumBasins
    /\ outFile' = ResultFile(files.cfg)
    /\ pc' = "done"
    /\ UNCHANGED <<cfg, files, data, err, model, params, trainVars, basin,
                   seen, preds, obs, results, robustVars>>

\* evaluate_basin as a function of the model and of the loader's batches
RECURSIVE EvaluateBasinLoop(_, _, _, _, _)
EvaluateBasinLoop(m, p, batches, accPreds, accObs) ==
    IF batches = <<>> THEN [preds |-> accPreds, obs |-> accObs]
    ELSE EvaluateBasinLoop(m, p, Tail(batches),
                           accPreds \o BatchOutputs(m, p, Head(batches)),
                           accObs \o BatchTargets(Head(batches)))

EvaluateBasin(m, p, batches) ==
    LET acc == EvaluateBasinLoop(m, p, batches, <<>>, <<>>)
    IN  [preds |-> FinishPredictions(acc.preds), obs |-> acc.obs]

----------------------------------------------------------------------------
(* eval_robustness, eval_with_added_noise *)

\* The d-th vector of standard normal samples of a generator seeded with
\* seed: np.random.seed(seed) makes the sequence of draws a function of it
StdNormal(seed, d, j) == ((seed + d + j * j) % 3) - 1

\* np.random.normal(loc=0, scale=scale, size=27)
NormalNoiseUnscaled(seed, d, s) ==
    [j \in 1..NumStatAttribs |-> StdNormal(seed, d, j)]
NormalNoise(seed, d, s) ==
    [j \in 1..NumStatAttribs |-> s * StdNormal(seed, d, j)]

\* x_s.add(noise.repeat(...)): the noise added to the static attributes of
\* every sequence
AddNoise(x_s, noise) == [j \in 1..Len(x_s) |-> x_s[j] + noise[j]]

\* x_s[:, 0, :] after the addition: the static input of every sequence of
\* the batches
RECURSIVE NoisyInputs(_, _)
NoisyInputs(batches, noise) ==
    IF batches = <<>> THEN <<>>
    ELSE [i \in 1..Len(Head(batches)) |-> AddNoise(Head(batches)[i].x_s, noise)]
         \o NoisyInputs(Tail(batches), noise)

\* What the dataset behind the loader holds after x_s = x_s.add(batch_noise):
\* add returns a new tensor, where add_ would write into its operand
DatasetAfterAddInPlace(d, noise) ==
    [d EXCEPT !.attributes = AddNoise(@, noise)]
DatasetAfterAdd(d, noise) == d

NoisyBatchOutputs(m, p, items, noise) ==
    [i \in 1..Len(items) |->
        ModelForward(m, p, items[i].x_d, AddNoise(items[i].x_s, noise))]

RECURSIVE NoisyLoop(_, _, _, _, _, _)
NoisyLoop(m, p, batches, noise, accPreds, accObs) ==
    IF batches = <<>> THEN [preds |-> accPreds, obs |-> accObs]
    ELSE NoisyLoop(m, p, Tail(batches), noise,
                   accPreds \o NoisyBatchOutputs(m, p, Head(batches), noise),
                   accObs \o BatchTargets(Head(batches)))

\* eval_with_added_noise after its loop: rescale, set discharges < 0 to zero
NoisyFinishPredictions(raw) == ClampNegative(RescaleFeatures(raw))

\* eval_with_added_noise: its locals when it returns
EvalWithAddedNoise(m, p, batches, noise) ==
    LET acc == NoisyLoop(m, p, batches, noise, <<>>, <<>>)
        final == NoisyFinishPredictions(acc.preds)
        validObs == MaskNonNegative(acc.obs, acc.obs)
        validPreds == MaskNonNegative(final, acc.obs)
    IN  [obs |-> acc.obs, preds |-> final, args |-> <<validObs, validPreds>>,
         nse |-> CalcNse(validObs, validPreds), noise |-> noise,
         x_s |-> NoisyInputs(batches, noise)]

NoCall == [obs |-> <<>>, preds |-> <<>>, args |-> <<<<>>, <<>>>>,
           nse |-> <<0, 0>>, noise |-> <<>>, x_s |-> <<>>]

\* if run_cfg["concat_static"] or run_cfg["no_static"]: raise
NotEntityAwareConcatOnly(c) == c.concat_static
NotEntityAware(c) == c.concat_static \/ c.no_static

\* n_repetitions at every scale, 0.0 included
RepetitionsAtEveryScale(s) == n_repetitions

\* 1 if scale == 0.0 else n_repetitions
Repetitions(s) == IF s = 0 THEN 1 ELSE n_repetitions

\* (len(scales) - 1) * n_repetitions + 1
ProgressTotal == (NumScales - 1) * n_repetitions + 1

\* the seeds are set and cfg.json is read
RobustReadCfg ==
    /\ pc = "start"
    /\ cfg.mode = "eval_robustness"
    /\ IF ~files.exists
       THEN pc' = "failed" /\ err' = "FileNotFoundError"
       ELSE pc' = "rob_check" /\ err' = err
    /\ UNCHANGED <<cfg, files, data, model, params, trainVars, inferVars,
                   robustVars>>

RobustCheckVariant ==
    /\ pc = "rob_check"
    /\ IF NotEntityAware(files.cfg)
       THEN pc' = "failed" /\ err' = "NotImplementedError"
       ELSE pc' = "rob_model" /\ err' = err
    /\ UNCHANGED <<cfg, files, data, model, params, trainVars, inferVars,
                   robustVars>>

\* Model(input_size_dyn=5, input_size_stat=27, hidden_size=..., dropout=...)
RobustnessModel(c) ==
    NewModel(NumForcings, NumStatAttribs, c.hidden_size, FALSE, FALSE)

RobustBuildModel ==
    /\ pc = "rob_model"
    /\ model' = RobustnessModel(files.cfg)
    /\ params' = InitParams(RobustnessModel(files.cfg))
    /\ pc' = "rob_load"
    /\ UNCHANGED <<cfg, files, data, err, trainVars, inferVars, robustVars>>

RobustLoadWeights ==
    /\ pc = "rob_load"
    /\ IF LoadOutcome(files, model) = "ok"
       THEN /\ params' = files.ckpt[WeightFile(files.cfg)]
            /\ pc' = "rob_basins"
            /\ err' = err
       ELSE /\ err' = LoadOutcome(files, model)
            /\ pc' = "failed"
            /\ params' = params
    /\ UNCHANGED <<cfg, files, data, model, trainVars, inferVars, robustVars>>

\* for basin in pbar: the dataset and the loader of the next basin, an empty
\* basin_results, step = 1
RobustBasinEnter ==
    /\ pc = "rob_basins"
    /\ basin < NumBasins
    /\ basin' = basin + 1
    /\ basin_results' = <<>>
    /\ step' = 1
    /\ scale' = 0
    /\ rep' = 0
    /\ pc' = "rob_rep"
    /\ UNCHANGED <<cfg, files, data, err, model, params, trainVars, seen,
                   preds, obs, results, outFile, draws, ret>>

\* basin_results[scale].append(nse) on a defaultdict(list)
Appended(d, k, v) ==
    IF k \in DOMAIN d THEN [d EXCEPT ![k] = Append(@, v)]
    ELSE d @@ (k :> <<v>>)

\* One pass of the body of the two nested loops: draw the noise, evaluate
\* the basin with it (one batch holding the whole basin), record the NSE,
\* show the progress
RobustRepetition ==
    /\ pc = "rob_rep"
    /\ scale < NumScales
    /\ LET noise == NormalNoise(cfg.seed, draws, scale)
           batches == <<LoaderBatch(data[basin], FALSE, NumSamples, 1)>>
           r == EvalWithAddedNoise(model, params, batches, noise)
       IN  /\ ret' = r @@ [progress |-> <<step, ProgressTotal>>]
           /\ basin_results' = Appended(basin_results, scale, r.nse)
           /\ data' = [data EXCEPT ![basin] = DatasetAfterAdd(@, noise)]
    /\ draws' = draws + 1
    /\ step' = step + 1
    /\ IF rep + 1 < Repetitions(scale)
       THEN rep' = rep + 1 /\ scale' = scale
       ELSE rep' = 0 /\ scale' = scale + 1
    /\ UNCHANGED <<cfg, files, pc, err, model, params, trainVars,
                   basin, seen, preds, obs, results, outFile>>

\* overall_results[basin] = basin_results
RobustBasinFinish ==
    /\ pc = "rob_rep"
    /\ scale = NumScales
    /\ results' = results @@ (basin :> basin_results)
    /\ pc' = "rob_basins"
    /\ UNCHANGED <<cfg, files, data, err, model, params, trainVars, basin,
                   seen, preds, obs, outFile, robustVars>>

\* pickle.dump(overall_results, fp)
RobustStore ==
    /\ pc = "rob_basins"
    /\ basin = NumBasins
    /\ outFile' = "model_robustness"
    /\ pc' = "done"
    /\ UNCHANGED <<cfg, files, data, err, model, params, trainVars, basin,
                   seen, preds, obs, results, robustVars>>

----------------------------------------------------------------------------
(* The program *)

\* The configurations of the training runs whose directories the evaluation
\* modes are pointed at
EvalRunEpochs == {0, 2}

\* --hidden_size of the runs under evaluation: the default and another
HiddenSizes == {HiddenSize, HiddenSize \div 2}

RunConfigs ==
    {[Config("train", e, DefaultLearningRate, 0, f, FALSE, 0)
         EXCEPT !.hidden_size = h] :
        e \in EvalRunEpochs, f \in VariantFlags, h \in HiddenSizes}

EvalConfigs ==
    {Config(m, 0, DefaultLearningRate, 0, CHOOSE f \in VariantFlags :
                ~f.no_static /\ ~f.concat_static /\ ~f.use_partial_attribs,
            FALSE, s) :
        m \in {"evaluate", "eval_robustness"}, s \in 0..MaxSeed}

InitLocals ==
    /\ pc = "start"
    /\ err = "none"
    /\ model = NoModel
    /\ params = NoCkpt
    /\ epoch = 0
    /\ batch = 0
    /\ lr = 0
    /\ grad = NoGrad
    /\ stepping = <<>>
    /\ loaded = 0
    /\ trace = <<>>
    /\ saves = <<>>
    /\ timers = NoTimers
    /\ profile = NoProfile
    /\ basin = 0
    /\ seen = 0
    /\ preds = <<>>
    /\ obs = <<>>
    /\ results = <<>>
    /\ outFile = "none"
    /\ scale = 0
    /\ rep = 0
    /\ step = 0
    /\ draws = 0
    /\ basin_results = <<>>
    /\ ret = NoCall @@ [progress |-> <<0, 0>>]

\* The run whose directory a training run may find in its place
EarlierRun ==
    CHOOSE c \in RunConfigs :
        /\ c.epochs > 0 /\ c.hidden_size = HiddenSize
        /\ ~c.no_static /\ ~c.concat_static /\ ~c.use_partial_attribs

\* A training run starts on a fresh or an existing run directory; an
\* evaluation run starts on the directory a training left, completed or
\* stopped between two checkpoints, or on a directory that holds no run.
Init ==
    /\ \/ /\ cfg \in TrainConfigs
          /\ files = EmptyDir \/ files = TrainedDir(EarlierRun)
          /\ data = Dataset(0, cfg)
          /\ \E s \in 0..MaxSchedule :
                clock = [schedule |-> s, reads |-> 0, now |-> 0]
       \/ /\ cfg \in EvalConfigs
          /\ clock = [schedule |-> 0, reads |-> 0, now |-> 0]
          /\ \/ \E c \in RunConfigs, offset \in DataOffsets :
                   files = TrainedDir(c) /\ data = Dataset(offset, c)
             \/ \E c \in RunConfigs : \E k \in 0..(c.epochs - 1) :
                   files = AbortedDir(c, k) /\ data = Dataset(0, c)
             \/ files = EmptyDir /\ data = Dataset(0, cfg)
    /\ InitLocals

Next ==
    \/ SetupRun
    \/ PrepareData
    \/ EpochHead
    \/ TrainEpochEnter
    \/ \E w \in 1..MaxWorkers : LoaderWorker(w)
    \/ NextBatch
    \/ ZeroGrad
    \/ Forward
    \/ Loss
    \/ Backward
    \/ Clip
    \/ StepBegin
    \/ StepEnd
    \/ SaveCheckpoint
    \/ EvaluateSetup
    \/ EvaluateBasinEnter
    \/ EvaluateBatch
    \/ EvaluateBasinFinish
    \/ StoreResults
    \/ RobustReadCfg
    \/ RobustCheckVariant
    \/ RobustBuildModel
    \/ RobustLoadWeights
    \/ RobustBasinEnter
    \/ RobustRepetition
    \/ RobustBasinFinish
    \/ RobustStore

Spec == Init /\ [][Next]_vars


\* The file as it stands: the interpreter compiles main_bench.py before it
\* executes any statement of it, line 589 is no statement, and the run ends
\* in SyntaxError whatever the mode.
CompileAsWritten ==
    /\ pc = "start"
    /\ pc' = "failed"
    /\ err' = "SyntaxError"
    /\ UNCHANGED <<cfg, files, data, model, params, trainVars, inferVars,
                   robustVars>>

NextAsWritten == CompileAsWritten

SpecAsWritten == Init /\ [][NextAsWritten]_vars

----------------------------------------------------------------------------
(* Properties of the training loop *)

PhaseOrder == <<"zero_grad", "forward", "loss", "backward", "clip", "step">>

\* Number of phases of the current batch that are behind the trainer at pc
PhasesDone(p) ==
    CASE p = "zero_grad" -> 0
      [] p = "forward" -> 1
      [] p = "loss" -> 2
      [] p = "backward" -> 3
      [] p = "clip" -> 4
      [] p = "step" -> 5
      [] p = "stepping" -> 6
      [] OTHER -> -1

\* C1: every batch goes through zero_grad, forward, loss, backward, clip,
\* step in this order; the gradient a step applies comes from the backward
\* pass of that same batch and of no other batch.
C1_PhaseOrder ==
    /\ Len(trace) <= Len(PhaseOrder)
    /\ \A i \in 1..Len(trace) : trace[i] = PhaseOrder[i]
    /\ PhasesDone(pc) >= 0 => Len(trace) = PhasesDone(pc)
    /\ pc \in {"clip", "step", "stepping"} => grad.src = << <<epoch, batch>> >>
    /\ (cfg.mode = "train" /\ params.steps > 0) =>
          /\ Len(params.grad.src) = 1
          /\ params.grad.src[1][1] = params.epoch

C1_Witness ==
    /\ pc = "stepping"
    /\ params.steps >= NumBatches
    /\ trace = PhaseOrder

\* C2: at most one optimizer step is in flight, it is the step of the batch
\* the trainer holds, every earlier step has completed before the next batch
\* is taken up, and a parameter write happens only as the step in flight
\* returns: a loader worker producing a batch leaves the parameters alone.
StepsCompleted ==
    IF epoch = 0 THEN 0
    ELSE IF pc = "train_epoch" THEN (epoch - 1) * NumBatches
    ELSE (epoch - 1) * NumBatches + batch
         - (IF PhasesDone(pc) >= 0 THEN 1 ELSE 0)

C2_StepsSerial ==
    /\ [](cfg.mode = "train" =>
             /\ Len(stepping) <= 1
             /\ stepping # <<>> =>
                   pc = "stepping" /\ stepping[1] = <<epoch, batch>>
             /\ pc \notin {"start", "prepare", "failed"} =>
                   params.steps = StepsCompleted)
    /\ [][cfg.mode = "train" =>
             /\ (params' # params /\ pc # "prepare") =>
                   /\ pc = "stepping"
                   /\ params'.steps = params.steps + 1
                   /\ loaded' = loaded
             /\ (loaded' > loaded /\ cfg.num_workers > 0) =>
                   params' = params]_vars

C2_Witness ==
    /\ pc = "stepping"
    /\ cfg.num_workers > 0
    /\ loaded > batch
    /\ params.steps > 0

\* C3: each completed epoch e has exactly one checkpoint, keyed e, written
\* when all batches of epochs 1..e and none of epoch e+1 have been stepped,
\* holding the parameters of that moment, and still stored unchanged; no
\* other key is ever written.
EpochsCompleted ==
    IF pc \in {"epoch_head", "done"} THEN epoch
    ELSE IF epoch > 0 THEN epoch - 1 ELSE 0

C3_CheckpointPerEpoch ==
    cfg.mode = "train" =>
    /\ Len(saves) = EpochsCompleted
    /\ \A i \in 1..Len(saves) :
          /\ saves[i].key = i
          /\ saves[i].value.steps = i * NumBatches
          /\ saves[i].value.epoch = i
          /\ files.ckpt[i] = saves[i].value
    /\ pc \notin {"start", "failed"} =>
          \A e \in 1..MaxEpochs : e > Len(saves) => files.ckpt[e] = NoCkpt
    /\ (pc \in BatchPcs /\ epoch > 1) => files.ckpt[epoch - 1] # NoCkpt
    /\ pc = "done" => Len(saves) = cfg.epochs

C3_Witness ==
    /\ pc = "done"
    /\ cfg.epochs = MaxEpochs
    /\ Len(saves) = MaxEpochs
    /\ files.ckpt[1] # files.ckpt[MaxEpochs]

\* C4: the rate of every optimizer step of epoch e is the initial rate for
\* e <= 10, 5e-4 for e in 11..20 and 1e-4 from 21 on; the rate changes only
\* when the model is set up and on entering epochs 11 and 21.
ScheduledRate(e, initial) ==
    IF e <= 10 THEN initial
    ELSE IF e <= 20 THEN LrEpoch11 ELSE LrEpoch21

C4_StepSchedule ==
    /\ [](cfg.mode = "train" =>
             /\ pc \in BatchPcs => lr = ScheduledRate(epoch, cfg.learning_rate)
             /\ params.steps > 0 =>
                   params.lr = ScheduledRate(params.epoch, cfg.learning_rate))
    /\ [][lr' # lr => \/ pc = "prepare"
                      \/ pc = "epoch_head" /\ epoch' \in {11, 21}]_vars

C4_Witness ==
    /\ pc = "stepping"
    /\ epoch = 21
    /\ batch = NumBatches
    /\ cfg.learning_rate = DefaultLearningRate
    /\ lr = LrEpoch21
    /\ params.lr = LrEpoch21

\* The gradient g is what the backward pass left: no scaling applied
Unscaled(g) == g.num = g.den \/ g.norm = 0

\* The global norm of g after scaling is at most t
ScaledNormLeq(g, t) == ProdLeq(g.norm, g.num, t, g.den)

ClippedInOrder ==
    /\ pc = "step" => SubSeq(trace, 4, 5) = <<"backward", "clip">>
    /\ pc = "stepping" => SubSeq(trace, 4, 6) = <<"backward", "clip", "step">>

\* C5 as stated: after clipping, a gradient whose norm exceeded T has norm
\* <= T and a gradient whose norm was <= T is unchanged; clipping comes
\* after the backward pass and before the step.
C5_ClipAsStated ==
    /\ ClippedInOrder
    /\ pc \in {"step", "stepping"} =>
          /\ grad.norm > ClipValue => ScaledNormLeq(grad, ClipValue)
          /\ grad.norm <= ClipValue => Unscaled(grad)

\* C5 amended: after clipping, a gradient whose norm exceeded T has norm
\* <= T; a gradient whose norm was <= T - 1e-6 is unchanged; one whose norm
\* lay in (T - 1e-6, T] is scaled by T / (norm + 1e-6).  Clipping comes
\* after the backward pass and before the step, which applies the clipped
\* gradient.
C5_ClipAmended ==
    /\ ClippedInOrder
    /\ pc \in {"step", "stepping"} =>
          /\ ScaledNormLeq(grad, ClipValue)
          /\ grad.norm + ClipEps <= ClipValue => Unscaled(grad)
          /\ grad.norm + ClipEps > ClipValue =>
                grad.num = ClipValue /\ grad.den = grad.norm + ClipEps
    /\ params.steps > 0 => ScaledNormLeq(params.grad, ClipValue)

C5_Witness ==
    /\ pc = "step"
    /\ grad.norm > ClipValue
    /\ ~Unscaled(grad)
    /\ params.steps > 0
    /\ Unscaled(params.grad)
    /\ params.grad.norm > 0

----------------------------------------------------------------------------
(* Properties of the evaluator and of the robustness analysis *)

\* The output of the model for sequence i of basin b, its static
\* attributes shifted by noise, rescaled to discharge units
RescaledOutput(b, i, concat, noise) ==
    LET it == Item(data[b], i, concat)
        x_s == IF noise = <<>> THEN it.x_s
               ELSE [j \in 1..Len(it.x_s) |-> it.x_s[j] + noise[j]]
    IN  ModelForward(model, params, it.x_d, x_s) * OutputStd + OutputMean

Clamped(p) == IF p < 0 THEN 0 ELSE p

\* C6: what evaluate_basin and eval_with_added_noise return for a basin is,
\* for every sequence of the basin, the rescaled prediction p if p >= 0 and
\* 0 if p < 0; until its loop is over evaluate_basin holds the raw outputs
\* of all batches seen, neither rescaled nor clamped; the observations
\* returned are those of the data provider.
C6_ClampAfterRescale ==
    /\ cfg.mode = "evaluate" =>
          /\ \A b \in DOMAIN results :
                /\ Len(results[b].qsim) = NumSamples
                /\ Len(results[b].qobs) = NumSamples
                /\ \A i \in 1..NumSamples :
                      /\ results[b].qsim[i] =
                            Clamped(RescaledOutput(b, i, files.cfg.concat_static, <<>>))
                      /\ results[b].qobs[i] = data[b].samples[i].y
          /\ pc = "eval_batch" =>
                \A i \in 1..Len(preds) :
                   preds[i] * OutputStd + OutputMean =
                      RescaledOutput(basin, i, files.cfg.concat_static, <<>>)
    /\ (cfg.mode = "eval_robustness" /\ pc = "rob_rep" /\ step > 1) =>
          /\ Len(ret.preds) = NumSamples
          /\ Len(ret.obs) = NumSamples
          /\ \A i \in 1..NumSamples :
                /\ ret.preds[i] = Clamped(RescaledOutput(basin, i, FALSE, ret.noise))
                /\ ret.obs[i] = data[basin].samples[i].y

C6_Witness ==
    /\ cfg.mode = "evaluate"
    /\ pc = "done"
    /\ \E b \in DOMAIN results : \E i, j \in 1..NumSamples :
          /\ RescaledOutput(b, i, files.cfg.concat_static, <<>>) < 0
          /\ results[b].qsim[i] = 0
          /\ results[b].qsim[j] > 0

\* The (observation, prediction) pairs with a non-negative observation, in
\* their order
RECURSIVE ValidPairs(_, _, _)
ValidPairs(o, s, i) ==
    IF i > Len(o) THEN <<>>
    ELSE (IF o[i] >= 0 THEN << <<o[i], s[i]>> >> ELSE <<>>)
         \o ValidPairs(o, s, i + 1)

\* 1 - sum((obs - sim)^2) / sum((obs - mean(obs))^2) over pairs, as the
\* pair <<numerator, denominator>>, both scaled by the square of the count
NseOfPairs(ps) ==
    LET n == Len(ps)
        total == Sum([k \in 1..n |-> ps[k][1]])
    IN  <<n * n * Sum([k \in 1..n |-> (ps[k][1] - ps[k][2]) * (ps[k][1] - ps[k][2])]),
          Sum([k \in 1..n |-> (n * ps[k][1] - total) * (n * ps[k][1] - total)])>>

\* C7: the NSE eval_with_added_noise returns is the NSE of exactly the
\* (observation, prediction) pairs whose observation is >= 0, in their
\* original order: the arrays handed to calc_nse hold these pairs, as many
\* as there are non-negative observations, and no others.
C7_NseOverValidObs ==
    (cfg.mode = "eval_robustness" /\ draws > 0) =>
       LET pairs == ValidPairs(ret.obs, ret.preds, 1)
       IN  /\ Len(pairs) = Cardinality({i \in 1..Len(ret.obs) : ret.obs[i] >= 0})
           /\ ret.args[1] = [k \in 1..Len(pairs) |-> pairs[k][1]]
           /\ ret.args[2] = [k \in 1..Len(pairs) |-> pairs[k][2]]
           /\ ret.nse = NseOfPairs(pairs)

C7_Witness ==
    /\ cfg.mode = "eval_robustness"
    /\ draws > 0
    /\ \E i, j \in 1..Len(ret.obs) : ret.obs[i] < 0 /\ ret.obs[j] = 0
    /\ Len(ret.args[1]) = Len(ret.obs) - 1
    /\ ret.nse[2] > 0

\* C8: on a run whose configuration has concat_static or no_static set,
\* eval_robustness goes no further than the variant check: it ends with
\* NotImplementedError, and no model has been constructed, no checkpoint
\* loaded, no noise drawn, no basin evaluated and no result file written.
C8_RejectsNonEntityAware ==
    (/\ cfg.mode = "eval_robustness"
     /\ files.exists
     /\ files.cfg.concat_static \/ files.cfg.no_static) =>
       /\ pc \in {"start", "rob_check", "failed"}
       /\ pc = "failed" => err = "NotImplementedError"
       /\ model = NoModel
       /\ params = NoCkpt
       /\ draws = 0
       /\ ret.obs = <<>>
       /\ results = <<>>
       /\ outFile = "none"

C8_Witness ==
    /\ cfg.mode = "eval_robustness"
    /\ pc = "failed"
    /\ err = "NotImplementedError"
    /\ files.cfg.no_static

\* The number of the draw that repetition k at scale s of basin b uses,
\* counting the draws of the run from 0
DrawIndex(b, s, k) ==
    (b - 1) * 501 + (IF s = 0 THEN 0 ELSE 1 + (s - 1) * 50) + (k - 1)

NseOfRepetition(b, s, k) ==
    EvalWithAddedNoise(model, params,
                       <<LoaderBatch(data[b], FALSE, NumSamples, 1)>>,
                       NormalNoise(cfg.seed, DrawIndex(b, s, k), s)).nse

AllBatches(b, size) ==
    [k \in 1..NumLoaderBatches(NumSamples, size) |->
        LoaderBatch(data[b], files.cfg.concat_static, size, k)]

EvaluatorOutput(b, size) ==
    EvaluateBasin(EvaluateModel(files.cfg), files.ckpt[WeightFile(files.cfg)],
                  AllBatches(b, size))

EvaluatorNse(b, size) ==
    LET e == EvaluatorOutput(b, size)
    IN  NseOfPairs(ValidPairs(e.obs, e.preds, 1))

\* C10: the one repetition at scale 0.0 is run with the all-zero noise
\* vector, its predictions are those of evaluate_basin on the same model and
\* basin whatever the batch size of the evaluator's loader, and the NSE
\* recorded for scale 0.0 is the evaluator's NSE.
C10_ScaleZeroIsEvaluator ==
    cfg.mode = "eval_robustness" =>
       /\ (pc = "rob_rep" /\ step = 2) =>
             /\ \A j \in 1..Len(ret.noise) : ret.noise[j] = 0
             /\ \A size \in 1..NumSamples :
                   ret.preds = EvaluatorOutput(basin, size).preds
       /\ (pc = "rob_rep" /\ 0 \in DOMAIN basin_results) =>
             \A size \in 1..NumSamples :
                basin_results[0] = <<EvaluatorNse(basin, size)>>
       /\ \A b \in DOMAIN results :
             \A size \in 1..NumSamples :
                results[b][0] = <<EvaluatorNse(b, size)>>

C10_Witness ==
    /\ cfg.mode = "eval_robustness"
    /\ pc = "rob_rep"
    /\ step = 2
    /\ basin = NumBasins
    /\ draws > 1
    /\ \E i \in 1..NumSamples : ret.preds[i] = 0
    /\ basin_results[0][1][2] > 0

----------------------------------------------------------------------------
(* Properties that relate the three modes to one another *)

\* The model m has the cell variant and the sizes of the model train
\* constructs for the configuration c
ShapeAsTrained(m, c) ==
    /\ m.cell = ConfiguredModel(c).cell
    /\ m.input_size_dyn = ConfiguredModel(c).input_size_dyn
    /\ m.input_size_stat = ConfiguredModel(c).input_size_stat
    /\ m.hidden_size = ConfiguredModel(c).hidden_size

\* C11: the model evaluate constructs, and the model eval_robustness
\* constructs once the run has passed the entity-aware check, has the cell
\* variant, the dynamic and static input sizes and the hidden size of the
\* model train constructed for the stored configuration.
C11_ShapeAsTrained ==
    (cfg.mode \in {"evaluate", "eval_robustness"} /\ model # NoModel) =>
       ShapeAsTrained(model, files.cfg)

\* C11, the part that holds: evaluate always rebuilds the trained shape, and
\* eval_robustness does on runs trained on the full attribute set; on a run
\* trained with use_partial_attribs its model has 27 static inputs where
\* the checkpoint has 10, and load_state_dict raises RuntimeError.
C11_ShapeExceptPartial ==
    /\ (cfg.mode = "evaluate" /\ model # NoModel) =>
          ShapeAsTrained(model, files.cfg)
    /\ (cfg.mode = "eval_robustness" /\ model # NoModel) =>
          /\ model.cell = ConfiguredModel(files.cfg).cell
          /\ model.input_size_dyn = ConfiguredModel(files.cfg).input_size_dyn
          /\ model.hidden_size = ConfiguredModel(files.cfg).hidden_size
          /\ model.input_size_stat = NumStatAttribs
          /\ files.cfg.use_partial_attribs =>
                /\ ~ShapeAsTrained(model, files.cfg)
                /\ pc \in {"rob_load", "failed"}
                /\ pc = "failed" =>
                      err = IF /\ files.cfg.epochs > 0
                               /\ files.ckpt[files.cfg.epochs] # NoCkpt
                            THEN "RuntimeError"
                            ELSE "FileNotFoundError"
          /\ ~files.cfg.use_partial_attribs =>
                ShapeAsTrained(model, files.cfg)

C11_Witness ==
    /\ cfg.mode = "eval_robustness"
    /\ files.exists
    /\ files.cfg.use_partial_attribs
    /\ files.cfg.epochs > 0
    /\ model.input_size_stat = NumStatAttribs
    /\ ConfiguredModel(files.cfg).input_size_stat = NumStatAttribsPartial
    /\ pc = "failed"
    /\ err = "RuntimeError"

\* The positions of evaluate and eval_robustness at which the weights of
\* the checkpoint are loaded into the model
InferencePcs == {"eval_basins", "eval_batch", "rob_basins", "rob_rep"}

\* C12: from the load of the checkpoint on, through every batch, basin,
\* noise scale and repetition, the parameters of the model are those of the
\* checkpoint; evaluate and eval_robustness hold no optimizer, accumulate no
\* gradient and execute no optimizer step.
C12_InferenceReadOnly ==
    /\ []((cfg.mode \in {"evaluate", "eval_robustness"}) =>
             /\ grad = NoGrad
             /\ stepping = <<>>
             /\ lr = 0
             /\ (pc \in InferencePcs \/ (pc = "done" /\ model # NoModel)) =>
                   params = files.ckpt[WeightFile(files.cfg)])
    /\ [][(pc \in InferencePcs) =>
             /\ params' = params
             /\ model' = model
             /\ files' = files]_vars

C12_Witness ==
    /\ cfg.mode \in {"evaluate", "eval_robustness"}
    /\ pc = "done"
    /\ model # NoModel
    /\ params = files.ckpt[WeightFile(files.cfg)]
    /\ params.steps > 0
    /\ \/ cfg.mode = "evaluate" /\ DOMAIN results = 1..NumBasins
       \/ cfg.mode = "eval_robustness" /\ draws = 501 * NumBasins

\* The parameters a run with configuration c has after the step of batch b
\* of epoch e: a function of the configuration and of the place in the run
ParamsAfter(c, e, b) ==
    OptimizerStep(
        [InitParams(ConfiguredModel(c)) EXCEPT
            !.steps = (e - 1) * NumBatches + b - 1],
        ClipGradNorm(Backpropagated(NoGrad, e, b, BatchGradNorm(c.seed, e, b)),
                     ClipValue),
        EpochRate(c.learning_rate, e), e)

\* C13: whatever the clock returns, a train run is stopped by nothing but
\* the refusal of an existing run directory, its parameters after each step,
\* its learning rate in each epoch and the checkpoints it writes are
\* functions of the configuration and of the place in the run alone, and a
\* finished run has processed every epoch.
C13_TimingObservational ==
    cfg.mode = "train" =>
       /\ pc = "failed" =>
             err = "RuntimeError" /\ clock.reads = 0 /\ files.exists
       /\ params.steps > 0 =>
             /\ params.steps = StepsCompleted
             /\ params = ParamsAfter(cfg, params.epoch,
                                     ((params.steps - 1) % NumBatches) + 1)
       /\ pc \in BatchPcs => lr = EpochRate(cfg.learning_rate, epoch)
       /\ \A i \in 1..Len(saves) :
             saves[i] = [key |-> i, value |-> TrainedParams(cfg, i)]
       /\ pc = "done" =>
             /\ Len(saves) = cfg.epochs
             /\ files = TrainedDir(cfg)

C13_Witness ==
    /\ cfg.mode = "train"
    /\ ~files.exists
    /\ cfg.epochs = MaxEpochs
    /\ clock.schedule > 0
    /\ pc = "failed"
    /\ err = "SyntaxError"
    /\ saves = <<>>
    /\ params = NoCkpt

\* The same run with line 589 completed: it has gone through all its epochs
\* under a clock that ran backwards at times, and the times it recorded
\* differ from zero
C13_CompletedWitness ==
    /\ cfg.mode = "train"
    /\ pc = "done"
    /\ cfg.epochs = MaxEpochs
    /\ clock.schedule = MaxSchedule
    /\ clock.reads > 0
    /\ TimersTotal(timers) # 0
    /\ timers.backward # 0
    /\ profile.data # 0
    /\ Len(saves) = MaxEpochs

\* The trainer is in epoch e and the last step made was one of epoch e - 1:
\* lr is the rate of epoch e, params.lr the rate of epoch e - 1
EpochJustEntered(e) ==
    /\ cfg.mode = "train"
    /\ pc \in BatchPcs
    /\ epoch = e
    /\ params.steps > 0
    /\ params.epoch = e - 1

\* C14: for every initial learning rate the rate of epoch 11 is lower than
\* that of epoch 10 and the rate of epoch 21 lower than that of epoch 20,
\* and the rate never increases from an epoch to the next.
C14_RateReduced ==
    /\ \A e \in {11, 21} : EpochJustEntered(e) => lr < params.lr
    /\ \A e \in 2..MaxEpochs : EpochJustEntered(e) => lr <= params.lr

\* C14, what the code does: the rate of epoch 21 (1e-4) is lower than that
\* of epoch 20 (5e-4) for every initial rate; the rate of epoch 11 is 5e-4,
\* which is lower than the rate of epoch 10 when the initial rate is above
\* 5e-4, the same when it is 5e-4, and higher when it is below 5e-4;
\* between all other epochs the rate stays as it is.
C14_RateSetAbsolute ==
    \A e \in 2..MaxEpochs :
       EpochJustEntered(e) =>
          /\ e = 21 => lr = LrEpoch21 /\ params.lr = LrEpoch11 /\ lr < params.lr
          /\ e = 11 =>
                /\ lr = LrEpoch11
                /\ params.lr = cfg.learning_rate
                /\ cfg.learning_rate > LrEpoch11 => lr < params.lr
                /\ cfg.learning_rate < LrEpoch11 => lr > params.lr
          /\ e \notin {11, 21} => lr = params.lr

C14_Witness ==
    /\ EpochJustEntered(11)
    /\ cfg.learning_rate = LrEpoch21
    /\ params.lr = LrEpoch21
    /\ lr = LrEpoch11
    /\ lr > params.lr


----------------------------------------------------------------------------
(* C15 *)

\* the scale of the call of eval_with_added_noise that returned last
ScaleOfLastCall == IF rep > 0 THEN scale ELSE scale - 1

\* C15: after every repetition the noise of the call is the one vector drawn
\* for that repetition, the static input of every sequence of the basin is
\* the basin's original normalized attribute vector plus that noise, the
\* attributes the loader holds are the original ones, and a repetition
\* changes no data: perturbations do not accumulate.
C15_FreshNoiseOnOriginal ==
    /\ []((cfg.mode = "eval_robustness" /\ pc = "rob_rep" /\ step > 1) =>
          /\ ret.noise = NormalNoise(cfg.seed, draws - 1, ScaleOfLastCall)
          /\ Len(ret.x_s) = NumSamples
          /\ \A i \in 1..NumSamples : \A j \in 1..NumStatAttribs :
                ret.x_s[i][j]
                    = Attributes(basin, NumStatAttribs)[j] + ret.noise[j]
          /\ data[basin].attributes = Attributes(basin, NumStatAttribs))
    /\ [][(pc = "rob_rep") => data' = data]_vars

\* a third repetition at a nonzero scale has run with a nonzero noise that
\* differs from the noise of the repetition before it
C15_Witness ==
    /\ cfg.mode = "eval_robustness" /\ pc = "rob_rep"
    /\ scale > 0 /\ rep >= 2
    /\ \E j \in 1..NumStatAttribs : ret.noise[j] # 0
    /\ ret.noise # NormalNoise(cfg.seed, draws - 2, scale)
    /\ ret.x_s[1] = AddNoise(Attributes(basin, NumStatAttribs), ret.noise)

----------------------------------------------------------------------------
(* C16 *)

\* C16: cfg.json of a run is written at most once; train on an existing
\* run directory fails in _setup_run with the directory, its
\* configuration, its data files and its checkpoints as they were and with
\* nothing of the new run created; and once _setup_run has returned, no
\* step of train writes cfg.json again or changes what it holds.
C16_ConfigWrittenOnce ==
    /\ [](cfg.mode = "train" =>
             /\ files.dumps <= 1
             /\ pc = "failed" =>
                   /\ err = "RuntimeError"
                   /\ files = TrainedDir(EarlierRun)
                   /\ model = NoModel /\ saves = <<>>
             /\ pc \notin {"start", "failed"} =>
                   files.dumps = 1 /\ files.cfg = cfg)
    /\ [][(cfg.mode = "train" /\ pc = "start" /\ files.exists) =>
             pc' = "failed" /\ files' = files]_vars
    /\ [][(cfg.mode = "train" /\ pc # "start") =>
             files'.dumps = files.dumps /\ files'.cfg = files.cfg]_vars

\* train was started on the directory of an earlier run with another
\* configuration and has failed; the earlier run's record, data files and
\* checkpoints are there
C16_Witness ==
    /\ cfg.mode = "train" /\ pc = "failed" /\ err = "RuntimeError"
    /\ files.exists
    /\ files.cfg # cfg
    /\ files.cfg = EarlierRun
    /\ files.dumps = 1
    /\ files.dataFiles = PreparedFiles
    /\ files.ckpt[EarlierRun.epochs] = TrainedParams(EarlierRun, EarlierRun.epochs)

----------------------------------------------------------------------------
(* C17 *)

\* whether the directory holds the checkpoint keyed by the epochs of its
\* configuration record
HasLastCheckpoint(dir) ==
    /\ dir.cfg.epochs \in DOMAIN dir.ckpt
    /\ dir.ckpt[dir.cfg.epochs] # NoCkpt

\* C17: evaluate and eval_robustness load the checkpoint keyed by the epochs
\* of the run's configuration record and no other. A train that has
\* completed leaves that checkpoint, and it holds the final parameters; a
\* train stopped before the checkpoint of its last epoch, or configured with
\* 0 epochs, leaves none, and then every load ends in FileNotFoundError: no
\* evaluation runs on the parameters of an earlier checkpoint.
C17_LoadsLastCheckpoint ==
    /\ (cfg.mode = "train" /\ pc \notin {"start", "prepare", "failed"}) =>
          /\ files = AbortedDir(cfg, EpochsCompleted)
          /\ HasLastCheckpoint(files) <=>
                (EpochsCompleted = cfg.epochs /\ cfg.epochs > 0)
          /\ (pc = "done" /\ cfg.epochs > 0) =>
                /\ files.ckpt[WeightFile(files.cfg)] = params
                /\ params.steps = cfg.epochs * NumBatches
                /\ \A e \in 1..MaxEpochs : files.ckpt[e] # NoCkpt => e <= cfg.epochs
    /\ (cfg.mode \in {"evaluate", "eval_robustness"} /\ files.exists) =>
          /\ (pc \in InferencePcs \/ pc = "done") =>
                /\ HasLastCheckpoint(files)
                /\ params = files.ckpt[files.cfg.epochs]
                /\ params = TrainedParams(files.cfg, files.cfg.epochs)
          /\ ~HasLastCheckpoint(files) =>
                /\ pc \in {"start", "rob_check", "rob_model", "rob_load", "failed"}
                /\ pc = "failed" =>
                      err \in {"FileNotFoundError", "NotImplementedError"}
                /\ (pc = "failed" /\ err = "NotImplementedError") =>
                      cfg.mode = "eval_robustness" /\ NotEntityAware(files.cfg)
                /\ \A e \in 1..MaxEpochs :
                      files.ckpt[e] # NoCkpt => params # files.ckpt[e]

\* an evaluation of a run of two epochs that stopped after the checkpoint of
\* epoch 1 has failed at the load, and its parameters are not those of the
\* checkpoint that exists
C17_Witness ==
    /\ cfg.mode \in {"evaluate", "eval_robustness"}
    /\ files.exists
    /\ files.cfg.epochs = 2
    /\ files.ckpt[1] # NoCkpt /\ files.ckpt[2] = NoCkpt
    /\ pc = "failed" /\ err = "FileNotFoundError"
    /\ params # files.ckpt[1]
====
